---- MODULE Spec2Model ----
(***************************************************************************)
(* Model of the pagination, caching and incremental-load engine of         *)
(* astro-loader-hashnode:                                                   *)
(*   - paginateResults / flattenPaginatedResults   (loaders/base.ts)       *)
(*   - RequestCache and HashnodeClient.query       (api/client.ts)         *)
(*   - BaseHashnodeLoader.load / processItem       (loaders/base.ts)       *)
(*   - SearchLoader.fetchData / calculateRelevance (loaders/search.ts)     *)
(*   - transform, validation, id and digest of one item (loaders/*.ts)     *)
(* The specifications share the module: Spec (pagination driven by the     *)
(* flattening consumer), SpecClient (the client and its cache),            *)
(* SpecClientFaulty (the same client over a cache whose Map raises),       *)
(* SpecLoad (one load cycle whose fetchData is the pagination engine),     *)
(* SpecSearch (one load cycle of the search loader) and SpecEntry (one     *)
(* remote item loaded again and again by the posts, drafts or a custom     *)
(* loader).                                                                 *)
(***************************************************************************)
EXTENDS Integers, Sequences, FiniteSets, TLC

\* ------------------------------------------------------------------------
\* Bounds of the model
\* ------------------------------------------------------------------------
MaxItemVal == 3      \* distinct raw items the server can deliver
MaxPageLen == 2      \* longest page
MaxPages == 3        \* longest scripted sequence of pages
MaxCap == 4          \* largest maxItems tried
MaxTicks == 2        \* clock ticks a client run may take
MaxFetches == 2      \* fetch() calls a client run may issue
MaxSlots == 2        \* query() calls that may be in flight together
LoadPages == 2       \* longest scripted sequence of pages in a load cycle
MaxTerms == 2        \* longest searchTerms list

Items == 1..MaxItemVal

\* maxItems?: number -- the undefined argument is modelled by NoMax
NoMax == -1
MaxItemsValues == {NoMax} \cup (0..MaxCap)

\* a page-fetch callback that never stops is cut off after CallLimit calls;
\* a capped run needs at most MaxCap calls, an uncapped one Len(script)
CallLimit == MaxPages + MaxCap

\* ------------------------------------------------------------------------
\* Sequence helpers
\* ------------------------------------------------------------------------
Min(a, b) == IF a < b THEN a ELSE b
Max(a, b) == IF a > b THEN a ELSE b

\* slip: the kept items are taken from the back of the page
slice_FromEnd(s, end) ==
  LET n == IF end < 0 THEN Max(Len(s) + end, 0) ELSE Min(end, Len(s))
  IN  SubSeq(s, Len(s) - n + 1, Len(s))

\* Array.prototype.slice(0, end): a negative end counts from the back
slice(s, end) ==
  LET n == IF end < 0 THEN Max(Len(s) + end, 0) ELSE Min(end, Len(s))
  IN  SubSeq(s, 1, n)

RECURSIVE Flatten(_)
Flatten(ss) == IF ss = <<>> THEN <<>> ELSE Head(ss) \o Flatten(Tail(ss))

RECURSIVE SumLen(_)
SumLen(ss) == IF ss = <<>> THEN 0 ELSE Len(Head(ss)) + SumLen(Tail(ss))

IsPrefix(s, t) == Len(s) <= Len(t) /\ SubSeq(t, 1, Len(s)) = s

\* ------------------------------------------------------------------------
\* The page-fetch callback: a script of page results, answered in call
\* order; the last scripted answer is repeated for every later call
\* ------------------------------------------------------------------------
\* paginateResults is generic in the item type and never looks inside an
\* item: the j-th item of the page answered to call i carries the label
\* ItemAt(i, j), so that neighbouring items and neighbouring pages differ
ItemAt(i, j) == ((i + j) % MaxItemVal) + 1

PageItems(i, n) == [j \in 1..n |-> ItemAt(i, j)]

PageShapes ==
  [len : 0..MaxPageLen, hasNextPage : BOOLEAN, rejects : {FALSE}]
    \cup {[len |-> 0, hasNextPage |-> FALSE, rejects |-> TRUE]}

Continuing(p) == ~p.rejects /\ p.len # 0 /\ p.hasNextPage

Scripts ==
  {s \in UNION {[1..n -> PageShapes] : n \in 1..MaxPages} :
     \A i \in 1..(Len(s) - 1) : Continuing(s[i])}

VARIABLES
  script,        \* the answers of the page-fetch callback, in call order
  maxItems,      \* paginateResults' second argument (NoMax when omitted)
  pgPc,          \* generator position: start, fetching, yielded, done, failed
  cursor,        \* let cursor (0 is undefined)
  totalFetched,  \* let totalFetched
  calls,         \* page-fetch calls made so far
  cursorsSeen,   \* the cursor argument of every call, in call order
  itemsToYield,  \* the batch the generator is suspended on
  batches,       \* every batch emitted, in order
  allItems,      \* flattenPaginatedResults' accumulator
  pulls          \* next() calls the consumer has made on the generator

pgVars == <<script, maxItems, pgPc, cursor, totalFetched, calls,
            cursorsSeen, itemsToYield, batches, allItems, pulls>>

VARIABLES
  options,       \* HashnodeClientOptions given to the constructor
  now,           \* Date.now() in ms
  cache,         \* RequestCache.cache: Map from key to {data, timestamp, ttl}
  qPc,           \* per query() call in flight: idle, fetching, reading
  qReq,          \* its (query, variables)
  qStart,        \* the instant its fetch was issued
  qTimer,        \* whether its setTimeout(abort) timer is armed
  qStatus,       \* the status line its fetch resolved with
  qLookup,       \* what its cache lookup found: none, off, miss, expired
  netCalls,      \* fetch() calls issued so far
  cleared,       \* whether clearCache() ran with no cache.set since, and
                 \* the keys of the fresh entries it dropped
  lastOut,       \* how the query() call that settled in the last step ended
  cacheThrows    \* the RequestCache operation that raises an internal
                 \* error: none, get or set

clientVars == <<options, now, cache, qPc, qReq, qStart, qTimer, qStatus,
                qLookup, netCalls, cleared, lastOut, cacheThrows>>

VARIABLES
  kind,            \* what happens to each raw item in the pipeline
  loadPc,          \* load(): idle, fetching, processing, done, thrown
  loadItems,       \* const items = fetchResult.data || []
  idx,             \* position of the for..of loop over items
  setCalls,        \* positions of the items handed to store.set, in order
  warned,          \* positions of the items logged as skipped, in order
  processedCount,  \* let processedCount
  skippedCount,    \* let skippedCount
  errorCount,      \* let errorCount
  logged           \* logger calls so far, in order

loadVars == <<kind, loadPc, loadItems, idx, setCalls, warned, processedCount,
              skippedCount, errorCount, logged>>

VARIABLES
  searchOptions,   \* SearchLoaderOptions: searchTerms (hasTerms tells whether
                   \* the option is given) and maxResults (NoMax when omitted)
  srPc,            \* SearchLoader.fetchData: idle, loop, paging, done, failed
  termIdx,         \* position of the for..of loop over searchTerms
  allResults,      \* const allResults
  failedTerms,     \* the terms whose pagination rejected, each with the
                   \* number of items its earlier pages had delivered
  searchCalls,     \* page fetches made for the terms finished so far
  searchResult     \* the array fetchData resolved with

searchVars == <<searchOptions, srPc, termIdx, allResults, failedTerms,
                searchCalls, searchResult>>

VARIABLES
  loaderKind,      \* which loader runs the item pipeline
  rawItem,         \* the remote item, unchanged from load to load
  hostDigest,      \* whether the context supplies generateDigest
  loads,           \* load cycles run over the item so far
  storeCalls       \* the argument of every store.set call, in order

entryVars == <<loaderKind, rawItem, hostDigest, loads, storeCalls>>

vars == <<pgVars, clientVars, loadVars, searchVars, entryVars>>

\* fetchPage(cursor) at the i-th call; the end cursor of call i is the token i
fetchPage(i) ==
  LET p == script[Min(i, Len(script))]
  IN  [items |-> PageItems(i, p.len),
       pageInfo |-> [hasNextPage |-> p.hasNextPage, endCursor |-> i],
       rejects |-> p.rejects]

\* the pages the callback has returned so far, in call order
ResolvedCalls == IF pgPc = "fetching" THEN calls - 1 ELSE calls
ReturnedPages == [i \in 1..ResolvedCalls |-> fetchPage(i).items]

\* JavaScript truthiness of the optional number maxItems
Truthy(n) == n # NoMax /\ n # 0

\* ------------------------------------------------------------------------
\* HashnodeClient and RequestCache: data
\* ------------------------------------------------------------------------
MsPerSecond == 1000
DefaultTimeout == 30000
DefaultCacheTTL == 300

\* the clock advances in seconds
TickMs == MsPerSecond
MaxNow == MaxTicks * TickMs

Slots == 1..MaxSlots

\* HashnodeClientOptions: a timeout or cacheTTL of 0 stands for an omitted one
OptionValues ==
  { [cache |-> TRUE,  timeout |-> MsPerSecond, cacheTTL |-> 1],
    [cache |-> FALSE, timeout |-> 0, cacheTTL |-> 0] }

\* constructor: this.timeout = options.timeout || 30000
timeout == IF options.timeout # 0 THEN options.timeout ELSE DefaultTimeout

\* constructor: this.cacheTTL = options.cacheTTL || 300
cacheTTL == IF options.cacheTTL # 0 THEN options.cacheTTL ELSE DefaultCacheTTL

\* constructor: if (options.cache !== false) this.cache = new RequestCache()
CacheEnabled == options.cache # FALSE

\* query text "Aa" (char codes); variables {} (0) and {"n":1} (1)
QueryTexts == {<<65, 97>>}
VariableValues == {0, 1}
Requests == [query : QueryTexts, variables : VariableValues]

\* JSON.stringify(variables), as char codes
JSONstringify(v) ==
  IF v = 0 THEN <<123, 125>> ELSE <<123, 34, 110, 34, 58, 48 + v, 125>>

\* hash = (hash << 5) - hash + char; hash = hash & hash  -- 31 * hash + char
\* wrapped to a signed 32-bit integer, computed on 16-bit halves
HashStep(hash, char) ==
  LET lo  == hash % 65536
      hi  == (hash \div 65536) % 65536
      lo1 == 31 * lo + char
      lo2 == lo1 % 65536
      hi2 == (31 * hi + (lo1 \div 65536)) % 65536
  IN  IF hi2 >= 32768 THEN (hi2 - 65536) * 65536 + lo2 ELSE hi2 * 65536 + lo2

\* eight turns of the loop
HashSteps(hash, c) ==
  HashStep(HashStep(HashStep(HashStep(HashStep(HashStep(HashStep(HashStep(
    hash, c[1]), c[2]), c[3]), c[4]), c[5]), c[6]), c[7]), c[8])

RECURSIVE HashOf(_, _)
HashOf(hash, str) ==
  IF str = <<>> THEN hash
  ELSE IF Len(str) < 8 THEN HashOf(HashStep(hash, Head(str)), Tail(str))
  ELSE \* eight turns of the loop at a time, their result computed before
       \* the loop goes on
       LET next == HashSteps(hash, SubSeq(str, 1, 8))
       IN  IF next = next THEN HashOf(next, SubSeq(str, 9, Len(str)))
           ELSE hash

Abs(n) == IF n < 0 THEN 0 - n ELSE n

\* Number.prototype.toString(36), as the sequence of digit values
RECURSIVE toString36(_)
toString36(n) ==
  IF n < 36 THEN <<n>> ELSE toString36(n \div 36) \o <<n % 36>>

\* simpleHash(str)
simpleHash(str) == toString36(Abs(HashOf(0, str)))

\* getCacheKey(query, variables): `${this.publicationHost}:${hash}`
getCacheKey(r) ==
  <<"host", ":">> \o simpleHash(r.query \o JSONstringify(r.variables))

\* GraphQLResponse.data: omitted, null, or a payload object (the n-th fetch
\* is answered with payload n)
DataAbsent == 0
DataNull == -1
DataTruthy(d) == d > 0

\* HTTP status lines the server may answer with
StatusLines ==
  { [status |-> 200, statusText |-> "OK"],
    [status |-> 500, statusText |-> "Internal Server Error"] }

NoStatus == [status |-> 0, statusText |-> ""]

\* Response.ok
ResponseOk(status) == 200 <= status /\ status <= 299

\* response bodies: parsed tells whether response.json() resolves
ErrorLists == {<<>>, <<"e1", "e2">>}
Bodies ==
  { b \in [parsed : BOOLEAN, hasErrors : BOOLEAN, errors : ErrorLists,
           data : {DataAbsent, DataNull, 1}] :
      /\ (~b.hasErrors => b.errors = <<>>)
      /\ (~b.parsed => (~b.hasErrors /\ b.data = DataAbsent)) }

NoBody == [parsed |-> FALSE, hasErrors |-> FALSE, errors |-> <<>>,
           data |-> DataAbsent]
NoRequest == [query |-> <<>>, variables |-> 0]

\* error messages: a fixed text, a number and further text parts
Message(prefix, num, parts) == [prefix |-> prefix, num |-> num, parts |-> parts]
NoMessage == Message("", 0, <<>>)

\* how a query() call ended: kind is none, data or error; lookup tells what
\* its cache lookup found, phase where it ended (cache, fetch, body), elapsed
\* the time since its fetch was issued
NoOutcome ==
  [kind |-> "none", data |-> DataAbsent, name |-> "", message |-> NoMessage,
   cause |-> "", req |-> NoRequest, lookup |-> "none", status |-> NoStatus,
   body |-> NoBody, phase |-> "", elapsed |-> 0]

NotCleared == [on |-> FALSE, dropped |-> {}]

\* strings are sequences of char codes; undefined is no string at all
Undefined == <<-1>>

\* a remote item with none of the fields the pipeline looks at
NoRawItem ==
  [id |-> Undefined, cuid |-> Undefined, slug |-> Undefined,
   title |-> Undefined, updatedAt |-> Undefined, publishedAt |-> Undefined]

\* the client has not been used
ClientQuiet ==
  /\ options = [cache |-> FALSE, timeout |-> 0, cacheTTL |-> 0]
  /\ now = 0
  /\ cache = <<>>
  /\ qPc = [s \in Slots |-> "idle"]
  /\ qReq = [s \in Slots |-> NoRequest]
  /\ qStart = [s \in Slots |-> 0]
  /\ qTimer = [s \in Slots |-> FALSE]
  /\ qStatus = [s \in Slots |-> NoStatus]
  /\ qLookup = [s \in Slots |-> "none"]
  /\ netCalls = 0
  /\ cleared = NotCleared
  /\ lastOut = NoOutcome
  /\ cacheThrows = "none"

\* paginateResults has not been called
PaginateQuiet ==
  /\ script = <<[len |-> 0, hasNextPage |-> FALSE, rejects |-> FALSE]>>
  /\ maxItems = NoMax
  /\ pgPc = "start"
  /\ cursor = 0
  /\ totalFetched = 0
  /\ calls = 0
  /\ cursorsSeen = <<>>
  /\ itemsToYield = <<>>
  /\ batches = <<>>
  /\ allItems = <<>>
  /\ pulls = 0

\* load() has not been called
LoadQuiet ==
  /\ kind = [i \in Items |-> "ok"]
  /\ loadPc = "idle"
  /\ loadItems = <<>>
  /\ idx = 0
  /\ setCalls = <<>>
  /\ warned = <<>>
  /\ processedCount = 0
  /\ skippedCount = 0
  /\ errorCount = 0
  /\ logged = <<>>

\* the search loader is not in use
SearchQuiet ==
  /\ searchOptions = [hasTerms |-> FALSE, searchTerms |-> <<>>,
                      maxResults |-> NoMax]
  /\ srPc = "idle"
  /\ termIdx = 0
  /\ allResults = <<>>
  /\ failedTerms = {}
  /\ searchCalls = 0
  /\ searchResult = <<>>

\* no item has been taken through the pipeline
EntryQuiet ==
  /\ loaderKind = "posts"
  /\ rawItem = NoRawItem
  /\ hostDigest = FALSE
  /\ loads = 0
  /\ storeCalls = <<>>

InitPaginate ==
  /\ EntryQuiet
  /\ ClientQuiet
  /\ LoadQuiet
  /\ SearchQuiet
  /\ script \in Scripts
  /\ maxItems \in MaxItemsValues
  /\ pgPc = "start"
  /\ cursor = 0
  /\ totalFetched = 0
  /\ calls = 0
  /\ cursorsSeen = <<>>
  /\ itemsToYield = <<>>
  /\ batches = <<>>
  /\ allItems = <<>>
  /\ pulls = 0

\* slip: the empty-page stop is missing
EmptyPage_Never(items) == FALSE

\* if (items.length === 0) break;
EmptyPage(items) == Len(items) = 0

\* let itemsToYield = items; if (maxItems && totalFetched + items.length >
\* maxItems) itemsToYield = items.slice(0, maxItems - totalFetched)
Truncate(items, fetched, cap) ==
  IF Truthy(cap) /\ fetched + Len(items) > cap
  THEN slice(items, cap - fetched)
  ELSE items

\* slip: the cap does not end the loop
StopAfterYield_IgnoresCap(pageInfo, fetched, cap) == ~pageInfo.hasNextPage

\* slip: only the cap ends the loop, hasNextPage is not looked at
StopAfterYield_IgnoresHasNext(pageInfo, fetched, cap) ==
  Truthy(cap) /\ fetched >= cap

\* if (!pageInfo.hasNextPage || (maxItems && totalFetched >= maxItems)) break
StopAfterYield(pageInfo, fetched, cap) ==
  ~pageInfo.hasNextPage \/ (Truthy(cap) /\ fetched >= cap)

\* allItems.push(...batch)
PushBatch(all, batch) == all \o batch

\* slip: the cursor is not moved on
NextCursor_Stale(pageInfo) == cursor

\* cursor = pageInfo.endCursor
NextCursor(pageInfo) == pageInfo.endCursor

\* the generator body from the loop head up to `await fetchPage(cursor)`
CallFetchPage(c) ==
  /\ calls < CallLimit
  /\ calls' = calls + 1
  /\ cursorsSeen' = Append(cursorsSeen, c)
  /\ cursor' = c
  /\ pgPc' = "fetching"

\* the consumer's first next(): the generator runs to its first fetch
PgFirstRequest ==
  /\ pgPc = "start"
  /\ pulls' = pulls + 1
  /\ CallFetchPage(cursor)
  /\ UNCHANGED <<script, maxItems, totalFetched, itemsToYield, batches,
                 allItems>>
  /\ UNCHANGED <<clientVars, loadVars, searchVars, entryVars>>

\* slip: the generator does not wait at the yield: with the batch handed
\* over it goes straight on to the next page
PgPageReturned_Eager ==
  /\ pgPc = "fetching"
  /\ LET result == fetchPage(calls)
         items == result.items
     IN  IF result.rejects \/ EmptyPage(items)
         THEN /\ pgPc' = IF result.rejects THEN "failed" ELSE "done"
              /\ UNCHANGED <<itemsToYield, batches, allItems, totalFetched,
                             cursor, calls, cursorsSeen>>
         ELSE LET toYield == Truncate(items, totalFetched, maxItems)
                  total == totalFetched + Len(toYield)
              IN  /\ itemsToYield' = toYield
                  /\ batches' = Append(batches, toYield)
                  /\ allItems' = PushBatch(allItems, toYield)
                  /\ totalFetched' = total
                  /\ IF StopAfterYield(result.pageInfo, total, maxItems)
                     THEN /\ pgPc' = "done"
                          /\ UNCHANGED <<cursor, calls, cursorsSeen>>
                     ELSE CallFetchPage(NextCursor(result.pageInfo))
  /\ UNCHANGED <<script, maxItems, pulls>>
  /\ UNCHANGED <<clientVars, loadVars, searchVars, entryVars>>

\* the awaited page arrives: empty page -> break; otherwise truncate to the
\* cap and yield; the consumer pushes the batch onto allItems
PgPageReturned ==
  /\ pgPc = "fetching"
  /\ LET result == fetchPage(calls)
         items == result.items
     IN  IF result.rejects
         THEN /\ pgPc' = "failed"
              /\ UNCHANGED <<itemsToYield, batches, allItems>>
         ELSE IF EmptyPage(items)
         THEN /\ pgPc' = "done"
              /\ UNCHANGED <<itemsToYield, batches, allItems>>
         ELSE LET toYield == Truncate(items, totalFetched, maxItems)
              IN  /\ itemsToYield' = toYield
                  /\ batches' = Append(batches, toYield)
                  /\ allItems' = PushBatch(allItems, toYield)
                  /\ pgPc' = "yielded"
  /\ UNCHANGED <<script, maxItems, cursor, totalFetched, calls, cursorsSeen,
                 pulls>>
  /\ UNCHANGED <<clientVars, loadVars, searchVars, entryVars>>

\* the consumer's next next(): the generator resumes after the yield
PgResume ==
  /\ pgPc = "yielded"
  /\ pulls' = pulls + 1
  /\ LET pageInfo == fetchPage(calls).pageInfo
         total == totalFetched + Len(itemsToYield)
     IN  /\ totalFetched' = total
         /\ IF StopAfterYield(pageInfo, total, maxItems)
            THEN /\ pgPc' = "done"
                 /\ UNCHANGED <<cursor, calls, cursorsSeen>>
            ELSE CallFetchPage(NextCursor(pageInfo))
  /\ UNCHANGED <<script, maxItems, itemsToYield, batches, allItems>>
  /\ UNCHANGED <<clientVars, loadVars, searchVars, entryVars>>

NextPaginate == PgFirstRequest \/ PgPageReturned \/ PgResume

Spec == InitPaginate /\ [][NextPaginate]_vars

\* the consumer keeps pulling and every awaited page settles
FairSpec == Spec /\ WF_vars(NextPaginate)

\* ------------------------------------------------------------------------
\* Properties of the pagination engine
\* ------------------------------------------------------------------------
PgEnded == pgPc \in {"done", "failed"}

NoReject == \A i \in 1..Len(script) : ~script[i].rejects

\* the callback eventually returns an empty page or hasNextPage false
CallbackTerminates ==
  \E i \in 1..Len(script) :
    ~script[i].rejects /\ (script[i].len = 0 \/ ~script[i].hasNextPage)

\* items the callback delivers up to its terminating page
TotalAvailable == SumLen([i \in 1..Len(script) |-> fetchPage(i).items])

\* items emitted before the k-th batch
EmittedBefore(k) == SumLen(SubSeq(batches, 1, k - 1))

\* C1: for any callback and any maxItems = N the flattened result has exactly
\* min(N, total available) items, and no batch carries more items than the
\* cap allowance remaining when it is emitted.
C1_CapInvariant ==
  (maxItems # NoMax /\ NoReject) =>
    /\ \A k \in 1..Len(batches) :
         Len(batches[k]) <= maxItems - EmittedBefore(k)
    /\ pgPc = "done" =>
         Len(allItems) = IF CallbackTerminates
                         THEN Min(maxItems, TotalAvailable)
                         ELSE maxItems

\* the same statement for a cap other than 0
CapInvariantPositive == maxItems # 0 => C1_CapInvariant

\* C2: given a callback that eventually returns a page with hasNextPage false
\* or an empty page, paginateResults ends after finitely many page-fetch
\* calls (never more than the callback needs to reach that page).
C2_Terminates ==
  /\ CallbackTerminates => <>PgEnded
  /\ [](CallbackTerminates => calls <= Len(script))

C2_Witness ==
  /\ pgPc = "done" /\ CallbackTerminates /\ maxItems = NoMax
  /\ calls = Len(script) /\ calls >= 2

\* C3: a page with zero items ends the sequence at once: nothing is emitted
\* for it and the callback is never called again, even when the page reports
\* hasNextPage true.
C3_EmptyPageStops ==
  \A i \in 1..ResolvedCalls :
    (~fetchPage(i).rejects /\ fetchPage(i).items = <<>>) =>
      /\ pgPc = "done"
      /\ calls = i
      /\ Len(batches) = i - 1

C3_Witness ==
  /\ pgPc = "done" /\ calls = 2
  /\ fetchPage(2).items = <<>> /\ fetchPage(2).pageInfo.hasNextPage
  /\ ~fetchPage(2).rejects
  /\ Len(batches) = 1

\* C4: the flattened result is a prefix of the concatenation, in call order,
\* of the pages the callback returned, each batch being a prefix of its page:
\* nothing is reordered, duplicated or dropped from the middle.
C4_OrderPreserved ==
  /\ IsPrefix(allItems, Flatten(ReturnedPages))
  /\ allItems = Flatten(batches)
  /\ \A k \in 1..Len(batches) : IsPrefix(batches[k], ReturnedPages[k])

C4_Witness ==
  /\ pgPc = "done" /\ Len(batches) = 2
  /\ allItems = <<3, 1, 1>>
  /\ Flatten(ReturnedPages) = <<3, 1, 1, 2>>

\* C23: paginateResults fetches strictly one page at a time: the first call
\* receives no cursor, each later call starts only after the previous page
\* was returned and emitted and receives exactly that page's endCursor, and
\* no call starts while another is in flight.
C23_OnePageAtATime ==
  [][calls' # calls =>
       /\ calls' = calls + 1
       /\ pgPc # "fetching" /\ pgPc' = "fetching"
       /\ calls = 0 => (pgPc = "start" /\ cursorsSeen' = <<0>>)
       /\ calls > 0 =>
            /\ pgPc = "yielded"
            /\ Len(batches) = calls
            /\ batches[calls] = itemsToYield
            /\ cursorsSeen' =
                 Append(cursorsSeen, fetchPage(calls).pageInfo.endCursor)]_vars

C23_Witness ==
  /\ pgPc = "fetching" /\ calls = 3
  /\ cursorsSeen = <<0, 1, 2>>
  /\ Len(batches) = 2

\* the non-empty pages the callback has returned
NonEmptyPagesFetched ==
  Cardinality({i \in 1..ResolvedCalls :
                 ~fetchPage(i).rejects /\ fetchPage(i).items # <<>>})

\* the last call returned an empty page or rejected
EndedByEmptyOrRejected ==
  \/ pgPc = "failed"
  \/ pgPc = "done" /\ calls > 0 /\ fetchPage(calls).items = <<>>

\* C24 as stated: the number of page-fetch calls equals the number of
\* non-empty pages fetched, plus the one that triggers termination.
C24_AsStated ==
  PgEnded => calls = NonEmptyPagesFetched + 1

\* C24 (amended): the number of page-fetch calls equals the number of
\* non-empty pages fetched, plus one only when the run was ended by an empty
\* page or by a failed fetch; a run ended by hasNextPage false or by the cap
\* makes no call beyond its last non-empty page.
C24_CallCount ==
  /\ calls <= NonEmptyPagesFetched + 1
  /\ PgEnded =>
       calls = NonEmptyPagesFetched + (IF EndedByEmptyOrRejected THEN 1 ELSE 0)

C24_Witness ==
  /\ pgPc = "done" /\ Truthy(maxItems)
  /\ calls = 2 /\ NonEmptyPagesFetched = 2
  /\ fetchPage(2).pageInfo.hasNextPage
  /\ Len(allItems) = maxItems

\* C27: paginateResults is pull-driven: the page-fetch calls made never
\* outnumber the batches the consumer has asked for, so a consumer that
\* stops after k batches has caused at most k page-fetch calls.
C27_PullDriven ==
  /\ calls <= pulls
  /\ pgPc = "yielded" => (pulls = Len(batches) /\ calls <= Len(batches))

C27_Witness ==
  /\ pgPc = "yielded" /\ Len(batches) = 2
  /\ pulls = 2 /\ calls = 2
  /\ ~StopAfterYield(fetchPage(2).pageInfo,
                     totalFetched + Len(itemsToYield), maxItems)

\* C28: with maxItems unset or positive every batch emitted is non-empty:
\* totalFetched < maxItems holds each time a page is fetched, so cutting a
\* page to maxItems - totalFetched never leaves zero or fewer items.
C28_BatchesNonEmpty ==
  (maxItems = NoMax \/ maxItems > 0) =>
    /\ \A k \in 1..Len(batches) : Len(batches[k]) > 0
    /\ (maxItems > 0 /\ pgPc = "fetching") =>
         /\ totalFetched < maxItems
         /\ (~fetchPage(calls).rejects /\ fetchPage(calls).items # <<>>) =>
              Len(Truncate(fetchPage(calls).items, totalFetched, maxItems)) > 0

C28_Witness ==
  /\ maxItems > 0 /\ Len(batches) = 2
  /\ Len(batches[2]) = 1 /\ Len(ReturnedPages[2]) = 2
  /\ totalFetched + 1 = maxItems

\* ------------------------------------------------------------------------
\* RequestCache
\* ------------------------------------------------------------------------
\* slip: entries never expire
Expired_Never(entry) == FALSE

\* slip: the TTL is compared in seconds against an age in milliseconds
Expired_NoMsScale(entry) == now - entry.timestamp > entry.ttl

\* get: Date.now() - entry.timestamp > entry.ttl * 1000
Expired(entry) == now - entry.timestamp > entry.ttl * MsPerSecond

\* RequestCache.get(key): the value returned (null when absent or expired)
CacheGet(key) ==
  IF key \notin DOMAIN cache THEN DataNull
  ELSE IF Expired(cache[key]) THEN DataNull
  ELSE cache[key].data

\* RequestCache.get(key): the map afterwards (an expired entry is deleted)
CacheAfterGet(key) ==
  IF key \in DOMAIN cache /\ Expired(cache[key])
  THEN [k \in DOMAIN cache \ {key} |-> cache[k]]
  ELSE cache

\* slip: an entry already there is kept
CacheSet_KeepsFirst(key, data, ttl) ==
  IF key \in DOMAIN cache THEN cache
  ELSE [k \in DOMAIN cache \cup {key} |->
          IF k = key THEN [data |-> data, timestamp |-> now, ttl |-> ttl]
          ELSE cache[k]]

\* RequestCache.set(key, data, ttl)
CacheSet(key, data, ttl) ==
  [k \in DOMAIN cache \cup {key} |->
     IF k = key THEN [data |-> data, timestamp |-> now, ttl |-> ttl]
     ELSE cache[k]]

\* slip: clear() leaves the entries in place
CacheClear_Keeps == cache

\* RequestCache.clear()
CacheClear == <<>>

\* ------------------------------------------------------------------------
\* HashnodeClient.query
\* ------------------------------------------------------------------------
\* result.errors.map(err => err.message).join(', ')
RECURSIVE Join(_, _)
Join(msgs, sep) ==
  IF Len(msgs) <= 1 THEN msgs ELSE <<Head(msgs), sep>> \o Join(Tail(msgs), sep)

ErrorOutcome(name, message, cause) ==
  [NoOutcome EXCEPT !.kind = "error", !.name = name, !.message = message,
                    !.cause = cause]

\* throw new Error(`HTTP ${response.status}: ${response.statusText}`)
HttpError(sl) ==
  ErrorOutcome("Error", Message("HTTP ", sl.status, <<": ", sl.statusText>>), "")

\* throw new Error(`GraphQL errors: ${errorMessages}`)
GraphQLError(errors) ==
  ErrorOutcome("Error", Message("GraphQL errors: ", 0, Join(errors, ", ")), "")

\* throw new Error('No data returned from GraphQL query')
NoDataError ==
  ErrorOutcome("Error", Message("No data returned from GraphQL query", 0, <<>>), "")

\* throw new Error(`Request timeout after ${this.timeout}ms`, { cause })
TimeoutError ==
  ErrorOutcome("Error", Message("Request timeout after ", timeout, <<"ms">>),
               "AbortError")

\* fetch() rejecting for a network failure
NetworkError == ErrorOutcome("TypeError", Message("fetch failed", 0, <<>>), "")

\* response.json() rejecting
JsonError == ErrorOutcome("SyntaxError", Message("Unexpected token", 0, <<>>), "")

\* an internal error of the cache, such as the RangeError of a full Map
CacheError ==
  ErrorOutcome("RangeError", Message("Map maximum size exceeded", 0, <<>>), "")

\* slip: the data check comes before the errors check
Classify_DataFirst(b) ==
  IF DataTruthy(b.data) THEN [NoOutcome EXCEPT !.kind = "data", !.data = b.data]
  ELSE IF b.hasErrors /\ Len(b.errors) > 0 THEN GraphQLError(b.errors)
  ELSE NoDataError

\* the checks on the parsed body, in source order
Classify(b) ==
  IF b.hasErrors /\ Len(b.errors) > 0 THEN GraphQLError(b.errors)
  ELSE IF ~DataTruthy(b.data) THEN NoDataError
  ELSE [NoOutcome EXCEPT !.kind = "data", !.data = b.data]

\* if (cacheKey && this.cache)
UseCache == CacheEnabled

\* slip: the result is stored before it is checked
ShouldStore_Always(out) == UseCache

\* the store is reached only past every throw: if (cacheKey && this.cache)
ShouldStore(out) == out.kind = "data" /\ UseCache

\* a settled call: its outcome with the circumstances it ended in
Settled(out, s, sl, b, phase) ==
  [out EXCEPT !.req = qReq[s], !.lookup = qLookup[s], !.status = sl,
              !.body = b, !.phase = phase, !.elapsed = now - qStart[s]]

\* the call leaves its slot
Leave(s) ==
  /\ qPc' = [qPc EXCEPT ![s] = "idle"]
  /\ qTimer' = [qTimer EXCEPT ![s] = FALSE]
  /\ qReq' = [qReq EXCEPT ![s] = NoRequest]
  /\ qStart' = [qStart EXCEPT ![s] = 0]
  /\ qStatus' = [qStatus EXCEPT ![s] = NoStatus]
  /\ qLookup' = [qLookup EXCEPT ![s] = "none"]

\* query(query, variables) up to `await fetch(...)`: cache lookup, then the
\* request is issued and the abort timer armed
QueryStart(s, r) ==
  /\ qPc[s] = "idle"
  /\ \A t \in 1..(s - 1) : qPc[t] # "idle"
  /\ netCalls < MaxFetches
  /\ LET cacheKey == getCacheKey(r)
         cached == IF UseCache THEN CacheGet(cacheKey) ELSE DataNull
         found == IF ~UseCache THEN "off"
                  ELSE IF cacheKey \notin DOMAIN cache THEN "miss"
                  ELSE IF DataTruthy(cached) THEN "hit" ELSE "expired"
     IN  IF UseCache /\ cacheThrows = "get"
         THEN \* this.cache.get(cacheKey) is outside the try: the error
              \* leaves query
              /\ lastOut' = [CacheError EXCEPT !.req = r, !.lookup = "threw",
                                               !.phase = "cache"]
              /\ UNCHANGED <<cache, qPc, qReq, qStart, qTimer, qLookup,
                             netCalls>>
         ELSE
         /\ cache' = IF UseCache THEN CacheAfterGet(cacheKey) ELSE cache
         /\ IF DataTruthy(cached)
            THEN /\ lastOut' = [NoOutcome EXCEPT !.kind = "data",
                                  !.data = cached, !.req = r,
                                  !.lookup = found, !.phase = "cache"]
                 /\ UNCHANGED <<qPc, qReq, qStart, qTimer, qLookup, netCalls>>
            ELSE /\ netCalls' = netCalls + 1
                 /\ qPc' = [qPc EXCEPT ![s] = "fetching"]
                 /\ qReq' = [qReq EXCEPT ![s] = r]
                 /\ qStart' = [qStart EXCEPT ![s] = now]
                 /\ qTimer' = [qTimer EXCEPT ![s] = TRUE]
                 /\ qLookup' = [qLookup EXCEPT ![s] = found]
                 /\ lastOut' = NoOutcome
  /\ UNCHANGED <<options, cacheThrows, now, qStatus, cleared>>
  /\ UNCHANGED <<pgVars, loadVars, searchVars, entryVars>>

\* `await fetch(...)` resolves with a status line: clearTimeout, then the
\* response.ok check
FetchResolves(s, sl) ==
  /\ qPc[s] = "fetching"
  /\ IF ~ResponseOk(sl.status)
     THEN /\ lastOut' = Settled(HttpError(sl), s, sl, NoBody, "fetch")
          /\ Leave(s)
     ELSE /\ qPc' = [qPc EXCEPT ![s] = "reading"]
          /\ qTimer' = [qTimer EXCEPT ![s] = FALSE]
          /\ qStatus' = [qStatus EXCEPT ![s] = sl]
          /\ lastOut' = NoOutcome
          /\ UNCHANGED <<qReq, qStart, qLookup>>
  /\ UNCHANGED <<options, cacheThrows, now, cache, netCalls, cleared>>
  /\ UNCHANGED <<pgVars, loadVars, searchVars, entryVars>>

\* `await fetch(...)` rejects with a network failure: rethrown by the catch
FetchRejects(s) ==
  /\ qPc[s] = "fetching"
  /\ lastOut' = Settled(NetworkError, s, NoStatus, NoBody, "fetch")
  /\ Leave(s)
  /\ UNCHANGED <<options, cacheThrows, now, cache, netCalls, cleared>>
  /\ UNCHANGED <<pgVars, loadVars, searchVars, entryVars>>

\* `await response.json()` settles: errors, data, cache.set, return
BodySettles(s, b) ==
  /\ qPc[s] = "reading"
  /\ LET out == IF b.parsed THEN Classify(b) ELSE JsonError
     IN  IF ShouldStore(out) /\ cacheThrows = "set"
         THEN \* this.cache.set(...) throws inside the try: the catch
              \* rethrows what is not an AbortError
              /\ lastOut' = Settled(CacheError, s, qStatus[s], b, "body")
              /\ UNCHANGED <<cache, cleared>>
         ELSE
         /\ lastOut' = Settled(out, s, qStatus[s], b, "body")
         /\ IF ShouldStore(out)
            THEN /\ cache' = CacheSet(getCacheKey(qReq[s]), out.data, cacheTTL)
                 /\ cleared' = NotCleared
            ELSE UNCHANGED <<cache, cleared>>
  /\ Leave(s)
  /\ UNCHANGED <<options, cacheThrows, now, netCalls>>
  /\ UNCHANGED <<pgVars, loadVars, searchVars, entryVars>>

\* the setTimeout callback runs: controller.abort(); the pending await
\* rejects with an AbortError and the catch turns it into the timeout error
TimerFires(s) ==
  /\ qTimer[s]
  /\ now - qStart[s] >= timeout
  /\ qPc[s] \in {"fetching", "reading"}
  /\ lastOut' = Settled(TimeoutError, s, qStatus[s], NoBody,
                        IF qPc[s] = "fetching" THEN "fetch" ELSE "body")
  /\ Leave(s)
  /\ UNCHANGED <<options, cacheThrows, now, cache, netCalls, cleared>>
  /\ UNCHANGED <<pgVars, loadVars, searchVars, entryVars>>

\* time passes; a due timer runs before the clock moves on
Tick ==
  /\ now < MaxNow
  /\ \A s \in Slots : qTimer[s] => now - qStart[s] < timeout
  /\ now' = now + TickMs
  /\ lastOut' = NoOutcome
  /\ UNCHANGED <<options, cacheThrows, cache, qPc, qReq, qStart, qTimer, qStatus, qLookup,
                 netCalls, cleared>>
  /\ UNCHANGED <<pgVars, loadVars, searchVars, entryVars>>

\* clearCache(): if (this.cache) this.cache.clear()
ClearCache ==
  /\ cache' = IF CacheEnabled THEN CacheClear ELSE cache
  /\ cleared' = [on |-> TRUE,
                  dropped |-> {k \in DOMAIN cache : ~Expired(cache[k])}]
  /\ lastOut' = NoOutcome
  /\ UNCHANGED <<options, cacheThrows, now, qPc, qReq, qStart, qTimer, qStatus, qLookup,
                 netCalls>>
  /\ UNCHANGED <<pgVars, loadVars, searchVars, entryVars>>

InitClient ==
  /\ EntryQuiet
  /\ PaginateQuiet
  /\ LoadQuiet
  /\ SearchQuiet
  /\ options \in OptionValues
  /\ now = 0
  /\ cache = <<>>
  /\ qPc = [s \in Slots |-> "idle"]
  /\ qReq = [s \in Slots |-> NoRequest]
  /\ qStart = [s \in Slots |-> 0]
  /\ qTimer = [s \in Slots |-> FALSE]
  /\ qStatus = [s \in Slots |-> NoStatus]
  /\ qLookup = [s \in Slots |-> "none"]
  /\ netCalls = 0
  /\ cleared = NotCleared
  /\ lastOut = NoOutcome
  /\ cacheThrows = "none"

NextClient ==
  \/ \E s \in Slots, r \in Requests : QueryStart(s, r)
  \/ \E s \in Slots, sl \in StatusLines : FetchResolves(s, sl)
  \/ \E s \in Slots : FetchRejects(s)
  \/ \E s \in Slots, b \in Bodies : BodySettles(s, b)
  \/ \E s \in Slots : TimerFires(s)
  \/ Tick
  \/ ClearCache

SpecClient == InitClient /\ [][NextClient]_vars

\* the client with a cache one of whose operations raises an internal error
InitClientFaulty ==
  /\ EntryQuiet
  /\ PaginateQuiet
  /\ LoadQuiet
  /\ SearchQuiet
  /\ options \in {o \in OptionValues : o.cache}
  /\ now = 0
  /\ cache = <<>>
  /\ qPc = [s \in Slots |-> "idle"]
  /\ qReq = [s \in Slots |-> NoRequest]
  /\ qStart = [s \in Slots |-> 0]
  /\ qTimer = [s \in Slots |-> FALSE]
  /\ qStatus = [s \in Slots |-> NoStatus]
  /\ qLookup = [s \in Slots |-> "none"]
  /\ netCalls = 0
  /\ cleared = NotCleared
  /\ lastOut = NoOutcome
  /\ cacheThrows \in {"get", "set"}

SpecClientFaulty == InitClientFaulty /\ [][NextClient]_vars

\* ------------------------------------------------------------------------
\* Properties of the client and its cache
\* ------------------------------------------------------------------------
\* age of the entry at key k, and the lifetime it was stored with, in ms
AgeOf(k) == now - cache[k].timestamp
LifetimeOf(k) == cache[k].ttl * MsPerSecond

\* C5: the cache never returns an entry whose age exceeds ttl * 1000 ms: such
\* a lookup deletes the entry and returns absent, and the query that made the
\* lookup issues a fresh network call.
C5_ExpiredNeverReturned ==
  /\ [](lastOut.phase = "cache" =>
          LET k == getCacheKey(lastOut.req)
          IN  k \in DOMAIN cache /\ AgeOf(k) <= LifetimeOf(k))
  /\ [][\A s \in Slots, r \in Requests :
          LET k == getCacheKey(r)
          IN  (QueryStart(s, r) /\ CacheEnabled /\ k \in DOMAIN cache
                 /\ AgeOf(k) > LifetimeOf(k))
                => /\ k \notin DOMAIN cache'
                   /\ netCalls' = netCalls + 1
                   /\ qPc'[s] = "fetching"
                   /\ lastOut'.kind = "none"]_vars

C5_Witness ==
  \E s \in Slots :
    /\ qPc[s] = "fetching" /\ qLookup[s] = "expired"
    /\ getCacheKey(qReq[s]) \notin DOMAIN cache
    /\ netCalls = 2

Completed == lastOut.kind # "none" /\ lastOut.status # NoStatus

\* the messages of an errors list appear in order in an error message
CarriesAll(message, errors) ==
  /\ Len(message.parts) = 2 * Len(errors) - 1
  /\ \A i \in 1..Len(errors) : message.parts[2 * i - 1] = errors[i]

IsHttpError(out, sl) ==
  /\ out.kind = "error" /\ out.message.prefix = "HTTP "
  /\ out.message.num = sl.status
  /\ out.message.parts = <<": ", sl.statusText>>

IsGraphQLError(out, errors) ==
  /\ out.kind = "error" /\ out.message.prefix = "GraphQL errors: "
  /\ CarriesAll(out.message, errors)

IsNoDataError(out) ==
  /\ out.kind = "error"
  /\ out.message.prefix = "No data returned from GraphQL query"

IsTimeoutError(out) ==
  out.kind = "error" /\ out.message.prefix = "Request timeout after "

\* the timeout bounds the wait for fetch() to resolve
TimeoutBoundsFetch ==
  /\ \A s \in Slots : qPc[s] = "fetching" => now - qStart[s] <= timeout
  /\ (lastOut.kind # "none" /\ lastOut.phase # "cache"
        /\ lastOut.elapsed < timeout) => ~IsTimeoutError(lastOut)

\* C9: a request that exceeds the configured timeout is aborted and query
\* fails with a timeout error distinct from a network error; a request that
\* completes before the timeout never yields a timeout error.
C9_TimeoutAborts ==
  /\ \A s \in Slots : qPc[s] # "idle" => now - qStart[s] <= timeout
  /\ (lastOut.kind # "none" /\ lastOut.phase # "cache"
        /\ lastOut.elapsed > timeout) => IsTimeoutError(lastOut)
  /\ IsTimeoutError(lastOut) =>
       /\ lastOut.message # NetworkError.message
       /\ lastOut.cause = "AbortError"
  /\ (lastOut.kind # "none" /\ lastOut.phase # "cache"
        /\ lastOut.elapsed < timeout) => ~IsTimeoutError(lastOut)

\* the query() call of slot s fails in this step
Fails(s) == qPc[s] # "idle" /\ qPc'[s] = "idle" /\ lastOut'.kind = "error"

\* the cache holds an entry for the request that is inside its TTL window
FreshEntry(r) ==
  LET k == getCacheKey(r)
  IN  k \in DOMAIN cache /\ AgeOf(k) <= LifetimeOf(k)

\* the entries this step creates or overwrites
Written == {k \in DOMAIN cache' : k \notin DOMAIN cache \/ cache'[k] # cache[k]}

\* C25 as stated: a query that fails leaves the cache exactly as it was
\* when the query was made, and an identical query after the failure goes
\* to the network again.
C25_AsStated ==
  /\ [][\A s \in Slots :
          Fails(s) => (cache' = cache /\ qLookup[s] # "expired")]_vars
  /\ [][\A s \in Slots, r \in Requests :
          (QueryStart(s, r) /\ lastOut.kind = "error" /\ lastOut.req = r)
            => netCalls' = netCalls + 1]_vars

\* C25 (amended): a query that fails creates and overwrites no entry (the
\* one change it can have made is its lookup's deletion of the expired entry
\* of its key): an entry is created or overwritten only at the end of a
\* successful fetch, with that fetch's payload, so an identical query after
\* a failure goes to the network again unless another query has stored a
\* fresh entry for the key in the meantime.
C25_FailureStoresNothing ==
  /\ [][\A s \in Slots : Fails(s) => cache' = cache]_vars
  /\ [][\A k \in Written :
          /\ lastOut'.kind = "data" /\ lastOut'.phase = "body"
          /\ ResponseOk(lastOut'.status.status)
          /\ getCacheKey(lastOut'.req) = k
          /\ cache'[k].data = lastOut'.data]_vars
  /\ [][\A s \in Slots, r \in Requests :
          (QueryStart(s, r) /\ lastOut.kind = "error" /\ lastOut.req = r
             /\ ~FreshEntry(r))
            => (netCalls' = netCalls + 1 /\ qPc'[s] = "fetching")]_vars

C25_Witness ==
  /\ lastOut.kind = "error" /\ lastOut.lookup = "expired"
  /\ CacheEnabled
  /\ getCacheKey(lastOut.req) \notin DOMAIN cache
  /\ netCalls = 2

\* C29: the client does not coalesce in-flight requests: a query identical
\* to one still awaiting its response misses the cache and issues a network
\* call of its own, and each response that succeeds overwrites the entry, so
\* the entry holds the payload and the timestamp of the response stored last.
C29_NoCoalescing ==
  /\ [][\A s \in Slots :
          (qPc[s] = "idle" /\ qPc'[s] # "idle")
            => (netCalls' = netCalls + 1 /\ qPc'[s] = "fetching"
                /\ (CacheEnabled => ~FreshEntry(qReq'[s])))]_vars
  /\ [][(lastOut' # lastOut /\ lastOut'.phase = "cache"
           /\ lastOut'.kind = "data")
            => FreshEntry(lastOut'.req)]_vars
  /\ [](netCalls >= Cardinality({s \in Slots : qPc[s] # "idle"}))
  /\ [][\A s \in Slots :
          (qPc[s] = "reading" /\ qPc'[s] = "idle" /\ CacheEnabled
             /\ lastOut'.kind = "data")
            => cache'[getCacheKey(qReq[s])] =
                 [data |-> lastOut'.data, timestamp |-> now,
                  ttl |-> cacheTTL]]_vars

C29_Witness ==
  \E s, t \in Slots :
    /\ s # t /\ CacheEnabled
    /\ qPc[s] = "reading" /\ qPc[t] = "idle"
    /\ lastOut.kind = "data" /\ lastOut.phase = "body"
    /\ lastOut.req = qReq[s] /\ lastOut.lookup = "miss"
    /\ qLookup[s] = "miss"
    /\ FreshEntry(qReq[s])
    /\ netCalls = 2

IsCacheError(out) ==
  out.kind = "error" /\ out.message = CacheError.message

\* C22: the cache is best-effort: an internal error raised by the cache on
\* lookup or on store never reaches the caller of query; the request behaves
\* as a cache miss and the network result is still returned.
C22_CacheBestEffort ==
  /\ ~IsCacheError(lastOut)
  /\ lastOut.phase # "cache" \/ lastOut.kind = "data"
  /\ (lastOut.phase = "body" /\ lastOut.body.parsed)
       => lastOut.kind = Classify(lastOut.body).kind

\* ------------------------------------------------------------------------
\* BaseHashnodeLoader.load
\* ------------------------------------------------------------------------
\* what the collaborators do with a raw item: transformItem throws, the
\* schema rejects the transformed item, the host (parseData, generateDigest,
\* store.set) throws, store.set returns false (unchanged), or all is well
Kinds == {"ok", "unchanged", "transformThrows", "invalid", "hostThrows"}

LoadScripts == {s \in Scripts : Len(s) <= LoadPages}

\* slip: processItem has no try/catch around transformItem
processItem_NoCatch(item) ==
  IF kind[item] = "transformThrows"
    THEN [success |-> FALSE, code |-> "", throws |-> TRUE]
  ELSE IF kind[item] = "invalid"
    THEN [success |-> FALSE, code |-> "VALIDATION_ERROR", throws |-> FALSE]
  ELSE [success |-> TRUE, code |-> "", throws |-> FALSE]

\* processItem(item): transform, validate; a throw becomes a PROCESS_ERROR
\* result, a schema failure a VALIDATION_ERROR result
processItem(item) ==
  IF kind[item] = "transformThrows"
    THEN [success |-> FALSE, code |-> "PROCESS_ERROR", throws |-> FALSE]
  ELSE IF kind[item] = "invalid"
    THEN [success |-> FALSE, code |-> "VALIDATION_ERROR", throws |-> FALSE]
  ELSE [success |-> TRUE, code |-> "", throws |-> FALSE]

\* slip: the value returned by store.set is not looked at
stored_Always(item) == TRUE

\* const stored = store.set({...}): false when the store judges the item
\* unchanged
stored(item) == kind[item] # "unchanged"

\* this.fetchData(): the posts loader flattens one pagination, the search
\* loader runs SearchLoader.fetchData
fetchData ==
  IF srPc = "idle"
  THEN [settled |-> PgEnded, rejects |-> pgPc = "failed", data |-> allItems]
  ELSE [settled |-> srPc \in {"done", "failed"}, rejects |-> srPc = "failed",
        data |-> searchResult]

\* slip: the pages fetched before the failure are handed on as the data
safeFetch_KeepsPages == [success |-> TRUE, data |-> allItems]

\* safeFetch(): { success: true, data } when fetchData resolves, a FETCH_ERROR
\* result without data when it rejects
safeFetch ==
  IF fetchData.rejects
  THEN [success |-> FALSE, data |-> <<>>]
  ELSE [success |-> TRUE, data |-> fetchData.data]

\* load(context) up to `await this.safeFetch()`: fetchData starts paginating
LoadStart ==
  /\ loadPc = "idle"
  /\ loadPc' = "fetching"
  /\ logged' = Append(logged, "info:loading")
  /\ UNCHANGED <<kind, loadItems, idx, setCalls, warned, processedCount,
                 skippedCount, errorCount>>
  /\ UNCHANGED <<pgVars, clientVars, searchVars, entryVars>>

\* fetchData runs flattenPaginatedResults(paginateResults(fetchPage, max))
LoadFetchFirst == loadPc = "fetching" /\ PgFirstRequest
LoadFetchPage == loadPc = "fetching" /\ PgPageReturned
LoadFetchResume == loadPc = "fetching" /\ PgResume

\* safeFetch settles: a failure is logged and load returns; otherwise the
\* loop over the items starts
LoadFetchSettled ==
  /\ loadPc = "fetching"
  /\ fetchData.settled
  /\ IF ~safeFetch.success
     THEN /\ loadPc' = "done"
          /\ logged' = Append(logged, "error:fetch")
          /\ UNCHANGED <<loadItems, idx>>
     ELSE /\ loadPc' = "processing"
          /\ loadItems' = safeFetch.data
          /\ idx' = 1
          /\ logged' = Append(logged, "info:fetched")
  /\ UNCHANGED <<kind, setCalls, warned, processedCount, skippedCount,
                 errorCount>>
  /\ UNCHANGED <<pgVars, clientVars, searchVars, entryVars>>

\* one iteration of `for (const item of items)`
LoadProcessItem ==
  /\ loadPc = "processing"
  /\ idx <= Len(loadItems)
  /\ LET item == loadItems[idx]
         result == processItem(item)
     IN  IF result.throws \/ (result.success /\ kind[item] = "hostThrows")
         THEN \* caught by load's catch: logged, rethrown as LoaderError
              /\ loadPc' = "thrown"
              /\ logged' = Append(logged, "error:fatal")
              /\ UNCHANGED <<idx, setCalls, warned, processedCount,
                             skippedCount, errorCount>>
         ELSE IF ~result.success
         THEN /\ logged' = Append(logged, "warn:skipping")
              /\ warned' = Append(warned, idx)
              /\ errorCount' = errorCount + 1
              /\ idx' = idx + 1
              /\ UNCHANGED <<loadPc, setCalls, processedCount, skippedCount>>
         ELSE /\ setCalls' = Append(setCalls, idx)
              /\ IF stored(item)
                 THEN /\ processedCount' = processedCount + 1
                      /\ UNCHANGED skippedCount
                 ELSE /\ skippedCount' = skippedCount + 1
                      /\ UNCHANGED processedCount
              /\ idx' = idx + 1
              /\ UNCHANGED <<loadPc, warned, errorCount, logged>>
  /\ UNCHANGED <<kind, loadItems>>
  /\ UNCHANGED <<pgVars, clientVars, searchVars, entryVars>>

\* the loop is over: the summary line is logged and load returns
LoadComplete ==
  /\ loadPc = "processing"
  /\ idx > Len(loadItems)
  /\ loadPc' = "done"
  /\ logged' = Append(logged, "info:complete")
  /\ UNCHANGED <<kind, loadItems, idx, setCalls, warned, processedCount,
                 skippedCount, errorCount>>
  /\ UNCHANGED <<pgVars, clientVars, searchVars, entryVars>>

InitLoad ==
  /\ EntryQuiet
  /\ ClientQuiet
  /\ SearchQuiet
  /\ script \in LoadScripts
  /\ maxItems \in {NoMax, MaxPageLen + 1}
  /\ pgPc = "start"
  /\ cursor = 0
  /\ totalFetched = 0
  /\ calls = 0
  /\ cursorsSeen = <<>>
  /\ itemsToYield = <<>>
  /\ batches = <<>>
  /\ allItems = <<>>
  /\ pulls = 0
  /\ kind \in [Items -> Kinds]
  /\ loadPc = "idle"
  /\ loadItems = <<>>
  /\ idx = 0
  /\ setCalls = <<>>
  /\ warned = <<>>
  /\ processedCount = 0
  /\ skippedCount = 0
  /\ errorCount = 0
  /\ logged = <<>>

NextLoad ==
  \/ LoadStart
  \/ LoadFetchFirst
  \/ LoadFetchPage
  \/ LoadFetchResume
  \/ LoadFetchSettled
  \/ LoadProcessItem
  \/ LoadComplete

SpecLoad == InitLoad /\ [][NextLoad]_vars

\* ------------------------------------------------------------------------
\* Properties of the item pipeline
\* ------------------------------------------------------------------------
\* the item at position i fails in transform or in validation
Failing(i) == kind[loadItems[i]] \in {"transformThrows", "invalid"}

Occurrences(seq, x) == Cardinality({k \in 1..Len(seq) : seq[k] = x})

\* C10: an item whose transform throws or whose validation fails never aborts
\* the batch: every other fetched item is still handed to store.set, each
\* failing item is reported as exactly one skipped item, and no exception
\* escapes the batch.
C10_ItemIsolation ==
  /\ \A i \in 1..(idx - 1) :
       IF Failing(i)
       THEN Occurrences(warned, i) = 1 /\ Occurrences(setCalls, i) = 0
       ELSE Occurrences(warned, i) = 0 /\ Occurrences(setCalls, i) = 1
  /\ Len(warned) + Len(setCalls) = Max(idx - 1, 0)
  /\ errorCount = Len(warned)
  /\ processedCount + skippedCount = Len(setCalls)
  /\ loadPc = "thrown" => (~Failing(idx) /\ kind[loadItems[idx]] = "hostThrows")
  /\ (loadPc = "done" /\ pgPc = "done") => idx = Len(loadItems) + 1

C10_Witness ==
  /\ loadPc = "done"
  /\ Len(loadItems) = 3
  /\ kind[loadItems[1]] = "ok" /\ kind[loadItems[2]] = "invalid"
  /\ kind[loadItems[3]] = "ok"
  /\ setCalls = <<1, 3>> /\ warned = <<2>>

\* items of the batch whose fate in the pipeline is one of the given kinds
CountOf(ks) == Cardinality({i \in 1..Len(loadItems) : kind[loadItems[i]] \in ks})

\* the last line logged
LastLogged == IF logged = <<>> THEN "" ELSE logged[Len(logged)]

\* C11: when load finishes a cycle the three reported counts partition the
\* fetched items: processed counts the items store.set returned true for,
\* skipped those it returned false for, errors those that failed in the
\* pipeline, and the three add up to the number of fetched items.
C11_CountsPartition ==
  (loadPc = "done" /\ LastLogged = "info:complete") =>
    /\ loadItems = allItems
    /\ processedCount = CountOf({"ok"})
    /\ skippedCount = CountOf({"unchanged"})
    /\ errorCount = CountOf({"transformThrows", "invalid"})
    /\ processedCount + skippedCount + errorCount = Len(loadItems)

C11_Witness ==
  /\ loadPc = "done" /\ LastLogged = "info:complete"
  /\ processedCount = 1 /\ skippedCount = 1 /\ errorCount = 1

\* C12: when fetchData fails at any page, load logs the error 'Failed to
\* fetch <collection>', makes no store.set call (not even for the pages
\* fetched before the failure) and resolves without throwing.
C12_FetchFailureStoresNothing ==
  (loadPc # "idle" /\ pgPc = "failed") =>
    /\ setCalls = <<>>
    /\ loadPc \in {"fetching", "done"}
    /\ loadPc = "done" => logged = <<"info:loading", "error:fetch">>

C12_Witness ==
  /\ loadPc = "done" /\ pgPc = "failed"
  /\ calls = 2 /\ Len(allItems) > 0
  /\ LastLogged = "error:fetch"

\* C13: only a fatal top-level fetch error propagates out of load() (as the
\* typed LoaderError, the one thing load throws): load never throws for any
\* other reason.
C13_OnlyFetchErrorThrows ==
  loadPc = "thrown" => pgPc = "failed"

\* the sequence is strictly increasing
Increasing(seq) == \A a, b \in 1..Len(seq) : a < b => seq[a] < seq[b]

\* C26: within one load, store.set is called exactly once for each fetched
\* item that passes transform and validation, in fetched order, and never
\* for an item that failed either step; no item goes through the pipeline
\* twice.
C26_SetOncePerPassingItem ==
  /\ Increasing(setCalls) /\ Increasing(warned)
  /\ \A i \in 1..Len(loadItems) : Failing(i) => Occurrences(setCalls, i) = 0
  /\ Len(warned) + Len(setCalls) <= Len(loadItems)
  /\ loadPc \in {"done", "thrown"} =>
       \A i \in 1..Len(loadItems) :
         ~Failing(i) => Occurrences(setCalls, i) = 1

\* what holds of the code: the items the loop has passed are each handed to
\* store.set once when they passed both steps, and a load that returns has
\* passed them all
SetOncePerItemLoopedOver ==
  /\ Increasing(setCalls) /\ Increasing(warned)
  /\ \A i \in 1..Len(loadItems) :
       Occurrences(setCalls, i) =
         IF i < idx /\ ~Failing(i) THEN 1 ELSE 0
  /\ loadPc = "done" => idx >= Len(loadItems)

\* C14: every load cycle ends with a summary log line reporting the
\* processed, skipped and errored counts, whatever path the cycle took.
C14_SummaryAlways ==
  loadPc \in {"done", "thrown"} => LastLogged = "info:complete"

\* the summary line ends every cycle in which fetchData resolved and no
\* host call threw
SummaryOnCompletion ==
  (loadPc = "done" /\ pgPc = "done") => LastLogged = "info:complete"

\* ------------------------------------------------------------------------
\* SearchLoader: data and pure functions
\* ------------------------------------------------------------------------
\* const { searchTerms, maxResults = 50 } = this.options
DefaultMaxResults == 50

\* Math.min(maxResults, 100): the per-term limit
PerTermLimit == 100

\* weights of calculateRelevance
TitleWeight == 10
BriefWeight == 5
ReactionBonusCap == 3
ViewBonusCap == 2

\* search terms "a" and "B" (char codes)
TermTexts == {<<97>>, <<66>>}

SearchOptionValues ==
  { o \in [hasTerms : BOOLEAN,
           searchTerms : UNION {[1..n -> TermTexts] : n \in 0..MaxTerms},
           maxResults : MaxItemsValues] :
      ~o.hasTerms => o.searchTerms = <<>> }

\* String.prototype.toLowerCase on char codes
toLowerCase(str) ==
  [i \in 1..Len(str) |-> IF 65 <= str[i] /\ str[i] <= 90 THEN str[i] + 32
                         ELSE str[i]]

\* String.prototype.includes
includes(str, sub) ==
  \E i \in 0..(Len(str) - Len(sub)) : SubSeq(str, i + 1, i + Len(sub)) = sub

\* the posts of the publication: titles "A", "xb", "x"; only the first kind
\* has a brief ("b"); reaction and view counts grow with the id
Post(id) ==
  [id |-> id,
   title |-> IF id % 3 = 1 THEN <<65>>
             ELSE IF id % 3 = 2 THEN <<120, 98>> ELSE <<120>>,
   brief |-> IF id % 3 = 1 THEN <<98>> ELSE <<>>,
   reactionCount |-> 15 * (id - 1),
   views |-> 1250 * (id % 3)]

\* the post the server returns for term number t where the page-fetch
\* script delivers the item label x
PostIdOf(x, t) == ((x + t) % MaxItemVal) + 1

\* calculateRelevance(post, searchTerm), in tenths: the score is summed in
\* thousandths and rounded to one decimal place (Math.round: half up)
calculateRelevance(post, searchTerm) ==
  LET term == toLowerCase(searchTerm)
      t == IF includes(toLowerCase(post.title), term)
           THEN 1000 * TitleWeight ELSE 0
      b == IF includes(toLowerCase(post.brief), term)
           THEN 1000 * BriefWeight ELSE 0
      r == Min(100 * post.reactionCount, 1000 * ReactionBonusCap)
      v == Min(post.views, 1000 * ViewBonusCap)
  IN  (t + b + r + v + 50) \div 100

\* new Map(entries): the keys in first-insertion order
RECURSIVE NewMapKeys(_)
NewMapKeys(all) ==
  IF all = <<>> THEN <<>>
  ELSE LET keys == NewMapKeys(SubSeq(all, 1, Len(all) - 1))
           id == all[Len(all)].post.id
       IN  IF \E k \in 1..Len(keys) : keys[k] = id THEN keys
           ELSE Append(keys, id)

\* slip: the combined list is not collapsed by post id
NewMapValues_NoCollapse(all) == all

\* Array.from(new Map(all.map(r => [r.post.id, r])).values()): one value per
\* key, in key order; a later entry with the same key replaces the value
NewMapValues(all) ==
  LET keys == NewMapKeys(all)
      lastAt(id) == CHOOSE i \in 1..Len(all) :
                      /\ all[i].post.id = id
                      /\ \A j \in (i + 1)..Len(all) : all[j].post.id # id
  IN  [k \in 1..Len(keys) |-> all[lastAt(keys[k])]]

\* Array.prototype.sort((a, b) => relevanceB - relevanceA): stable, descending
RECURSIVE sortByRelevance(_)
sortByRelevance(list) ==
  IF list = <<>> THEN <<>>
  ELSE LET sorted == sortByRelevance(SubSeq(list, 1, Len(list) - 1))
           x == list[Len(list)]
           ahead == Cardinality({i \in 1..Len(sorted) :
                      calculateRelevance(sorted[i].post, sorted[i].searchTerm)
                        >= calculateRelevance(x.post, x.searchTerm)})
       IN  SubSeq(sorted, 1, ahead) \o <<x>>
             \o SubSeq(sorted, ahead + 1, Len(sorted))

\* maxResults after the destructuring default
maxResultsOf(o) ==
  IF o.maxResults = NoMax THEN DefaultMaxResults ELSE o.maxResults

\* slip: the list is cut to maxResults before it is sorted
SearchReturn_SliceFirst(all, maxResults) ==
  sortByRelevance(IF Truthy(maxResults)
                  THEN slice(NewMapValues(all), maxResults)
                  ELSE NewMapValues(all))

\* uniqueResults = dedupe + sort; return maxResults ?
\* uniqueResults.slice(0, maxResults) : uniqueResults
SearchReturn(all, maxResults) ==
  LET uniqueResults == sortByRelevance(NewMapValues(all))
  IN  IF Truthy(maxResults) THEN slice(uniqueResults, maxResults)
      ELSE uniqueResults

\* ------------------------------------------------------------------------
\* SearchLoader.fetchData
\* ------------------------------------------------------------------------
\* slip: the short-circuit for no search terms is missing
NoTerms_Never(o) == FALSE

\* if (!searchTerms || searchTerms.length === 0) return []
NoTerms(o) == ~o.hasTerms \/ Len(o.searchTerms) = 0

\* items: edges.map(edge => ({ post: edge.node, searchTerm })) for term t
SearchItems(labels, t) ==
  [k \in 1..Len(labels) |->
     [post |-> Post(PostIdOf(labels[k], t)),
      searchTerm |-> searchOptions.searchTerms[t]]]

\* slip: the items of the pages fetched before the failure are pushed
termResults_KeepsPages(t) == SearchItems(allItems, t)

\* what term t adds to allResults: the flattened results, or nothing when
\* flattenPaginatedResults rejected and the catch swallowed it
termResults(t) ==
  IF pgPc = "failed" THEN <<>> ELSE SearchItems(allItems, t)

\* the search server fills every page but the last (first: 20) and its
\* result list ends: the last page rejects or reports no further page
SearchScripts ==
  {s \in Scripts : /\ Len(s) <= LoadPages
                   /\ \A i \in 1..(Len(s) - 1) : s[i].len = MaxPageLen
                   /\ ~Continuing(s[Len(s)])}

\* fetchData() up to the loop over the terms
SearchStart ==
  /\ loadPc = "fetching"
  /\ srPc = "idle"
  /\ IF NoTerms(searchOptions)
     THEN srPc' = "done" /\ termIdx' = 0
     ELSE IF ~searchOptions.hasTerms
     THEN srPc' = "failed" /\ termIdx' = 0  \* for..of over undefined throws
     ELSE srPc' = "loop" /\ termIdx' = 1
  /\ UNCHANGED <<searchOptions, allResults, failedTerms, searchCalls,
                 searchResult>>
  /\ UNCHANGED <<pgVars, clientVars, loadVars, entryVars>>

\* the loop takes the next term: paginateResults(callback,
\* Math.min(maxResults, 100)) makes a fresh generator
SearchTermStart(s) ==
  /\ srPc = "loop"
  /\ termIdx <= Len(searchOptions.searchTerms)
  /\ srPc' = "paging"
  /\ script' = s
  /\ maxItems' = Min(maxResultsOf(searchOptions), PerTermLimit)
  /\ pgPc' = "start"
  /\ cursor' = 0
  /\ totalFetched' = 0
  /\ calls' = 0
  /\ cursorsSeen' = <<>>
  /\ itemsToYield' = <<>>
  /\ batches' = <<>>
  /\ allItems' = <<>>
  /\ pulls' = 0
  /\ UNCHANGED <<searchOptions, termIdx, allResults, failedTerms,
                 searchCalls, searchResult>>
  /\ UNCHANGED <<clientVars, loadVars, entryVars>>

\* flattenPaginatedResults drives the term's pagination
SearchFetchFirst == srPc = "paging" /\ PgFirstRequest
SearchFetchPage == srPc = "paging" /\ PgPageReturned
SearchFetchResume == srPc = "paging" /\ PgResume

\* the term's pagination settles: allResults.push(...results), or the empty
\* catch; the term's generator goes out of scope and the loop moves on
SearchTermSettled ==
  /\ srPc = "paging"
  /\ PgEnded
  /\ allResults' = allResults \o termResults(termIdx)
  /\ failedTerms' =
       IF pgPc = "failed"
       THEN failedTerms \cup {[term |-> termIdx, dropped |-> Len(allItems)]}
       ELSE failedTerms
  /\ searchCalls' = searchCalls + calls
  /\ termIdx' = termIdx + 1
  /\ srPc' = "loop"
  /\ script' = <<[len |-> 0, hasNextPage |-> FALSE, rejects |-> FALSE]>>
  /\ maxItems' = NoMax
  /\ pgPc' = "start"
  /\ cursor' = 0
  /\ totalFetched' = 0
  /\ calls' = 0
  /\ cursorsSeen' = <<>>
  /\ itemsToYield' = <<>>
  /\ batches' = <<>>
  /\ allItems' = <<>>
  /\ pulls' = 0
  /\ UNCHANGED <<searchOptions, searchResult>>
  /\ UNCHANGED <<clientVars, loadVars, entryVars>>

\* after the loop: dedupe, sort, cut to maxResults, return
SearchFinish ==
  /\ srPc = "loop"
  /\ termIdx > Len(searchOptions.searchTerms)
  /\ searchResult' = SearchReturn(allResults, maxResultsOf(searchOptions))
  /\ srPc' = "done"
  /\ UNCHANGED <<searchOptions, termIdx, allResults, failedTerms,
                 searchCalls>>
  /\ UNCHANGED <<pgVars, clientVars, loadVars, entryVars>>

\* every value a search result item can take
SearchItemValues ==
  {[post |-> Post(id), searchTerm |-> t] : id \in Items, t \in TermTexts}

InitSearch ==
  /\ EntryQuiet
  /\ ClientQuiet
  /\ PaginateQuiet
  /\ searchOptions \in SearchOptionValues
  /\ srPc = "idle"
  /\ termIdx = 0
  /\ allResults = <<>>
  /\ failedTerms = {}
  /\ searchCalls = 0
  /\ searchResult = <<>>
  /\ kind = [x \in SearchItemValues |-> "ok"]
  /\ loadPc = "idle"
  /\ loadItems = <<>>
  /\ idx = 0
  /\ setCalls = <<>>
  /\ warned = <<>>
  /\ processedCount = 0
  /\ skippedCount = 0
  /\ errorCount = 0
  /\ logged = <<>>

NextSearch ==
  \/ LoadStart
  \/ SearchStart
  \/ \E s \in SearchScripts : SearchTermStart(s)
  \/ SearchFetchFirst
  \/ SearchFetchPage
  \/ SearchFetchResume
  \/ SearchTermSettled
  \/ SearchFinish
  \/ LoadFetchSettled
  \/ LoadProcessItem
  \/ LoadComplete

SpecSearch == InitSearch /\ [][NextSearch]_vars

\* ------------------------------------------------------------------------
\* Properties of the search aggregator
\* ------------------------------------------------------------------------
Range(seq) == {seq[i] : i \in 1..Len(seq)}

\* how often the post with this id occurs in a list of search items
TimesIn(list, id) == Cardinality({i \in 1..Len(list) : list[i].post.id = id})

\* fetchData has just resolved with its result
SearchReturned == srPc = "done" /\ loadPc = "fetching"

\* the relevance of a search item, from its post and the term it carries
Rel(r) == calculateRelevance(r.post, r.searchTerm)

\* C15: given an empty or missing searchTerms list the aggregator makes no
\* page fetch and returns an empty result set, and load makes no store.set
\* call.
C15_NoTermsNoWork ==
  (srPc # "idle"
     /\ (~searchOptions.hasTerms \/ searchOptions.searchTerms = <<>>)) =>
    /\ srPc = "done"
    /\ searchResult = <<>>
    /\ searchCalls = 0 /\ calls = 0
    /\ setCalls = <<>>
    /\ loadPc # "thrown"
    /\ loadPc \in {"processing", "done"} => loadItems = <<>>

C15_Witness ==
  /\ searchOptions.hasTerms /\ searchOptions.searchTerms = <<>>
  /\ loadPc = "done" /\ srPc = "done"
  /\ LastLogged = "info:complete"
  /\ setCalls = <<>>

\* C16: a term whose pagination fails at any page adds nothing to the
\* combined list (the items of its earlier pages are discarded), the loop
\* goes on to the next term, a term that succeeds adds all its results, and
\* fetchData never rejects because of a term.
C16_TermIsolation ==
  /\ [](searchOptions.hasTerms => srPc # "failed")
  /\ []((srPc = "done" /\ searchOptions.hasTerms) =>
          termIdx = IF searchOptions.searchTerms = <<>> THEN 0
                    ELSE Len(searchOptions.searchTerms) + 1)
  /\ [][SearchTermSettled =>
          /\ termIdx' = termIdx + 1
          /\ srPc' = "loop"
          /\ allResults' =
               IF pgPc = "failed" THEN allResults
               ELSE allResults \o SearchItems(allItems, termIdx)]_vars

C16_Witness ==
  /\ srPc = "done"
  /\ Len(searchOptions.searchTerms) = 2
  /\ \E n \in 1..MaxPageLen : failedTerms = {[term |-> 1, dropped |-> n]}
  /\ searchResult # <<>>
  /\ searchResult = SearchReturn(allResults, maxResultsOf(searchOptions))
  /\ searchCalls >= 3

\* C17: the final result set holds each post (by id) at most once, and
\* exactly once when some term returned it and the set was not cut to
\* maxResults.
C17_EachPostOnce ==
  SearchReturned =>
    LET seen == {id \in Items : TimesIn(allResults, id) > 0}
        cap == maxResultsOf(searchOptions)
    IN  \A id \in Items :
          /\ TimesIn(searchResult, id) <= 1
          /\ TimesIn(searchResult, id) = 1 => id \in seen
          /\ (id \in seen /\ (~Truthy(cap) \/ Cardinality(seen) <= cap))
               => TimesIn(searchResult, id) = 1

C17_Witness ==
  /\ srPc = "done"
  /\ \E id \in Items :
       /\ TimesIn(allResults, id) = 3
       /\ TimesIn(searchResult, id) = 1
       /\ \E i, j \in 1..Len(allResults) :
            /\ allResults[i].post.id = id /\ allResults[j].post.id = id
            /\ allResults[i].searchTerm # allResults[j].searchTerm

\* C18: first-seen wins: a post returned for several terms is retained with
\* the search term of its first occurrence in term iteration order.
C18_FirstSeenWins ==
  SearchReturned =>
    \A k \in 1..Len(searchResult) :
      \E i \in 1..Len(allResults) :
        /\ allResults[i].post.id = searchResult[k].post.id
        /\ \A j \in 1..(i - 1) : allResults[j].post.id # allResults[i].post.id
        /\ searchResult[k].searchTerm = allResults[i].searchTerm

\* what the code retains: the term of the last occurrence
LastSeenWins ==
  SearchReturned =>
    \A k \in 1..Len(searchResult) :
      \E i \in 1..Len(allResults) :
        /\ allResults[i].post.id = searchResult[k].post.id
        /\ \A j \in (i + 1)..Len(allResults) :
             allResults[j].post.id # allResults[i].post.id
        /\ searchResult[k].searchTerm = allResults[i].searchTerm

\* C19: the result is ordered by relevance, highest first, each score
\* computed from the item and the search term it retains, and the cut to
\* maxResults comes after the sort: no item left out scores higher than an
\* item returned.
C19_SortedThenCut ==
  SearchReturned =>
    LET unique == NewMapValues(allResults)
        cap == maxResultsOf(searchOptions)
    IN  /\ \A i, j \in 1..Len(searchResult) :
             i < j => Rel(searchResult[i]) >= Rel(searchResult[j])
        /\ Range(searchResult) \subseteq Range(unique)
        /\ Truthy(cap) => Len(searchResult) = Min(cap, Len(unique))
        /\ \A x \in Range(unique) \ Range(searchResult) :
             \A y \in Range(searchResult) : Rel(x) <= Rel(y)

C19_Witness ==
  /\ srPc = "done"
  /\ Len(searchResult) = 2
  /\ Len(NewMapValues(allResults)) = 3
  /\ searchResult[1] = NewMapValues(allResults)[3]
  /\ Rel(searchResult[1]) > Rel(searchResult[2])

\* C20: for every maxResults value each term contributes at most
\* min(maxResults, 100) items and the final result set has at most
\* maxResults items.
C20_Caps ==
  LET cap == maxResultsOf(searchOptions)
  IN  /\ srPc = "paging" => Len(allItems) <= Min(cap, PerTermLimit)
      /\ srPc = "done" => Len(searchResult) <= cap

\* the same statement for a maxResults other than 0
CapsPositive == searchOptions.maxResults # 0 => C20_Caps

\* ------------------------------------------------------------------------
\* The item pipeline, field by field: transformItem, validateData,
\* generateId, processItem, the digest and the store.set argument
\* ------------------------------------------------------------------------
MaxLoads == 2        \* load cycles run over one remote item

\* null
Null == <<-2>>

\* the loaders: posts and drafts, and a loader derived from
\* BaseHashnodeLoader that keeps the base generateId, hands the item's
\* fields on as they are and validates against a schema with an optional id
LoaderKinds == {"posts", "drafts", "custom"}

\* JavaScript falsiness of an optional string
Falsy(str) == str = Undefined \/ str = Null \/ str = <<>>

\* a || b
Or(a, b) == IF Falsy(a) THEN b ELSE a

\* a Date is its instant in ms; NoDate is a missing one
NoDate == -1

\* the decimal digit of n at the given power of ten, as a char code
DigitAt(n, power) == 48 + ((n \div power) % 10)

\* Date.prototype.toISOString for an instant of the first minute of the
\* epoch: 1970-01-01T00:00:SS.mmmZ
toISOString(ms) ==
  <<49, 57, 55, 48, 45, 48, 49, 45, 48, 49, 84, 48, 48, 58, 48, 48, 58>>
    \o <<DigitAt(ms, 10000), DigitAt(ms, 1000), 46,
         DigitAt(ms, 100), DigitAt(ms, 10), DigitAt(ms, 1), 90>>

\* new Date(isoString) for such a string
DateParse(str) ==
  (str[18] - 48) * 10000 + (str[19] - 48) * 1000
    + (str[21] - 48) * 100 + (str[22] - 48) * 10 + (str[23] - 48)

\* the items the remote API may deliver: id '1', cuid 'c', slug 'test-post',
\* title 'T', dates half a second into the epoch; every field may be missing
RawItems ==
  [id : {Undefined, <<49>>},
   cuid : {Undefined, <<99>>},
   slug : {Undefined, <<116, 101, 115, 116, 45, 112, 111, 115, 116>>},
   title : {Undefined, <<84>>},
   updatedAt : {Undefined, toISOString(500)},
   publishedAt : {Undefined, toISOString(500)}]

\* the fields of a transformed item the model follows
Payload(id, title, slug, publishedAt, updatedAt, createdAt, lastSaved, rawId) ==
  [id |-> id, title |-> title, slug |-> slug, publishedAt |-> publishedAt,
   updatedAt |-> updatedAt, createdAt |-> createdAt, lastSaved |-> lastSaved,
   rawId |-> rawId]

\* Number.prototype.toString(36) as char codes
digitChars(ds) ==
  [i \in 1..Len(ds) |-> IF ds[i] < 10 THEN 48 + ds[i] ELSE 87 + ds[i]]

\* DraftsLoader.simpleHash(str)
draftSimpleHash(str) == digitChars(toString36(Abs(HashOf(0, str))))

\* generateFallbackId(draft): hash of `${title}-${updatedAt}`, the missing
\* updatedAt replaced by new Date().toISOString()
generateFallbackId(draft) ==
  LET title == Or(draft.title, <<117, 110, 116, 105, 116, 108, 101, 100>>)
      updatedAt == Or(draft.updatedAt, toISOString(now))
  IN  draftSimpleHash(title \o <<45>> \o updatedAt)

\* generateId(item) of each loader
generateId(k, item) ==
  IF k = "posts" THEN Or(Or(item.slug, item.cuid), item.id)
  ELSE IF k = "drafts"
    THEN LET id == Or(Or(item.id, item.cuid), item.slug)
         IN  <<100, 114, 97, 102, 116, 45>>
               \o (IF ~Falsy(id) THEN id ELSE generateFallbackId(item))
  ELSE Or(Or(item.id, item.cuid), item.slug)

\* post.publishedAt ? new Date(post.publishedAt) : new Date()
DateOrNow(str) == IF Falsy(str) THEN now ELSE DateParse(str)

\* post.updatedAt ? new Date(post.updatedAt) : undefined
DateOrUndefined(str) == IF Falsy(str) THEN NoDate ELSE DateParse(str)

\* transformHashnodePost(post)
transformHashnodePost(post) ==
  Payload(post.id, post.title, post.slug, DateOrNow(post.publishedAt),
          DateOrUndefined(post.updatedAt), NoDate, NoDate, Undefined)

\* transformHashnodeDraft(draft)
transformHashnodeDraft(draft) ==
  Payload(generateId("drafts", draft),
          Or(draft.title, <<85, 110, 116, 105, 116, 108, 101, 100, 32,
                            68, 114, 97, 102, 116>>),
          Undefined, NoDate, DateOrNow(draft.updatedAt),
          DateOrNow(draft.updatedAt), DateOrNow(draft.updatedAt),
          Or(draft.id, Null))

\* transformItem(item) of each loader
transformItem(k, item) ==
  IF k = "posts" THEN transformHashnodePost(item)
  ELSE IF k = "drafts" THEN transformHashnodeDraft(item)
  ELSE Payload(item.id, item.title, item.slug, NoDate, NoDate, NoDate,
               NoDate, Undefined)

\* z.string()
IsString(v) == v # Undefined /\ v # Null

\* this.config.schema.parse(data): postSchema wants id, title, slug and
\* publishedAt, draftSchema id, title, the three dates and raw.id, the
\* custom schema a title
SchemaAccepts(k, data) ==
  IF k = "posts"
    THEN /\ IsString(data.id) /\ IsString(data.title) /\ IsString(data.slug)
         /\ data.publishedAt # NoDate
  ELSE IF k = "drafts"
    THEN /\ IsString(data.id) /\ IsString(data.title)
         /\ data.updatedAt # NoDate /\ data.createdAt # NoDate
         /\ data.lastSaved # NoDate
         /\ IsString(data.rawId)
  ELSE IsString(data.title)

\* validateData(data)
validateData(k, data) ==
  IF SchemaAccepts(k, data) THEN [success |-> TRUE, data |-> data]
  ELSE [success |-> FALSE, data |-> data]

\* slip: the generated id is spread over the payload's own id
Spread_IdLast(id, data) == [data EXCEPT !.id = id]

\* { id: this.generateId(item), ...validation.data }: the payload's own id,
\* when it has one, replaces the generated id
Spread(id, data) ==
  IF data.id # Undefined THEN data ELSE [data EXCEPT !.id = id]

\* processItem(item) with the data it returns
processItemData(k, item) ==
  LET validation == validateData(k, transformItem(k, item))
  IN  IF ~validation.success THEN validation
      ELSE [success |-> TRUE,
            data |-> Spread(generateId(k, item), validation.data)]

\* JSON.stringify of a string value and of a Date
Quoted(str) == <<34>> \o str \o <<34>>
JsonOf(v) == IF v = Null THEN <<110, 117, 108, 108>> ELSE Quoted(v)
JsonDate(d) == Quoted(toISOString(d))

\* JSON.stringify(processedItem): the values of the fields in order, a field
\* that is undefined left out (the key texts are left out throughout)
JSONstringifyPayload(data) ==
  LET strs == <<data.id, data.title, data.slug>>
      dates == <<data.publishedAt, data.updatedAt, data.createdAt,
                 data.lastSaved>>
      parts == [i \in 1..3 |-> IF strs[i] = Undefined THEN <<>>
                               ELSE JsonOf(strs[i]) \o <<44>>]
                 \o [i \in 1..4 |-> IF dates[i] = NoDate THEN <<>>
                                    ELSE JsonDate(dates[i]) \o <<44>>]
                 \o << IF data.rawId = Undefined THEN <<>>
                       ELSE JsonOf(data.rawId) >>
  IN  <<123>> \o Flatten(parts) \o <<125>>

\* calculateDigest(content)
calculateDigest(content) ==
  digitChars(toString36(Abs(HashOf(0, JSONstringifyPayload(content)))))

\* the host's generateDigest: some fixed function of the object
generateDigest(obj) == JSONstringifyPayload(obj)

\* const digest = generateDigest ? generateDigest(processedItem)
\*                               : calculateDigest(processedItem)
digestOf(processedItem) ==
  IF hostDigest THEN generateDigest(processedItem)
  ELSE calculateDigest(processedItem)

\* the argument of store.set for a processed item
StoreEntry(processedItem) ==
  [id |-> processedItem.id, data |-> processedItem,
   digest |-> digestOf(processedItem)]

\* one load cycle over the remote item: processItem, digest, store.set
EntryLoad ==
  /\ loads < MaxLoads
  /\ loads' = loads + 1
  /\ LET result == processItemData(loaderKind, rawItem)
     IN  storeCalls' = IF result.success
                       THEN Append(storeCalls, StoreEntry(result.data))
                       ELSE storeCalls
  /\ UNCHANGED <<loaderKind, rawItem, hostDigest>>
  /\ UNCHANGED <<pgVars, clientVars, loadVars, searchVars>>

InitEntry ==
  /\ ClientQuiet
  /\ PaginateQuiet
  /\ LoadQuiet
  /\ SearchQuiet
  /\ loaderKind \in LoaderKinds
  /\ rawItem \in RawItems
  /\ hostDigest \in BOOLEAN
  /\ loads = 0
  /\ storeCalls = <<>>

NextEntry == EntryLoad \/ Tick

SpecEntry == InitEntry /\ [][NextEntry]_vars

\* ------------------------------------------------------------------------
\* Properties of the stored entry
\* ------------------------------------------------------------------------
\* C21: repeated loads of an unchanged remote item produce the same entry id
\* and the same digest: the id and the digested payload handed to store.set
\* are a function of the source item alone.
C21_SameIdSameDigest ==
  \A i, j \in 1..Len(storeCalls) :
    /\ storeCalls[i].id = storeCalls[j].id
    /\ storeCalls[i].data = storeCalls[j].data
    /\ storeCalls[i].digest = storeCalls[j].digest

\* the remote item carries the dates the transform reads
Dated ==
  IF loaderKind = "posts" THEN ~Falsy(rawItem.publishedAt)
  ELSE IF loaderKind = "drafts" THEN ~Falsy(rawItem.updatedAt)
  ELSE TRUE

\* what holds of the code: id and digest repeat for an item that carries
\* its dates
SameIdSameDigestWhenDated == Dated => C21_SameIdSameDigest

\* the payload that passed validation, before the generated id is spread in
ValidatedPayload == validateData(loaderKind, transformItem(loaderKind, rawItem)).data

\* C30: the id that load passes to store.set is the validated payload's own
\* id whenever the payload has one; the loader's generateId(item) result is
\* used only when the payload carries no id.
C30_PayloadIdWins ==
  \A i \in 1..Len(storeCalls) :
    /\ storeCalls[i].id = storeCalls[i].data.id
    /\ ValidatedPayload.id # Undefined =>
         storeCalls[i].id = ValidatedPayload.id
    /\ ValidatedPayload.id = Undefined =>
         storeCalls[i].id = generateId(loaderKind, rawItem)

\* a post with id '1' and slug 'test-post' is stored under '1', although
\* PostsLoader.generateId prefers the slug
C30_Witness ==
  /\ loaderKind = "posts"
  /\ rawItem.id = <<49>>
  /\ Len(rawItem.slug) = 9
  /\ generateId("posts", rawItem) = rawItem.slug
  /\ Len(storeCalls) >= 1
  /\ storeCalls[1].id = <<49>>

\* a payload without an id is stored under the generated id
GeneratedIdUsed ==
  /\ ValidatedPayload.id = Undefined
  /\ Len(storeCalls) >= 1
  /\ storeCalls[1].id = generateId(loaderKind, rawItem)

====
